---- MODULE Spec2Model ----
(***************************************************************************)
(* Model of pytest-vncmatch (vncmatch.py): the template search             *)
(* VNCMatch.find, the polling loop VNCMatch.expect_single_img and the      *)
(* failure report FindResult.output_imgs / VNCMatch._output_and_fail.      *)
(*                                                                         *)
(* Images are sequences of rows, a row is a sequence of pixels and a pixel *)
(* is a tuple of three channel values.  Coordinates are 0-based as in the  *)
(* code, sequence indices 1-based.  Time is counted in ticks of            *)
(* 0.1 x (the positive timeout), so that time.sleep(0.1 * timeout) is a    *)
(* whole number of ticks; the clock is read relative to the start of the   *)
(* current call.                                                           *)
(***************************************************************************)
EXTENDS Integers, Sequences, FiniteSets, TLC

\* ------------------------------------------------------------------ bounds
\* widest screen and widest search image of the search specification
MaxW == 3
MaxImgW == 2
\* longest duration of one find_img call, in ticks
MaxFindDur == 2
\* how many find_img calls of one expect_single_img call may take less than
\* the resolution of time.time() (the clock reads the same before and after)
MaxStall == 1

\* ------------------------------------------------------------------ values
\* "img is None", "matches is None", "no FindResult yet"
None == <<>>

\* channel values of a pixel as delivered by vnc.capture() (RGB)
Colors == {<<0, 0, 0>>, <<0, 0, 1>>}

\* cv2.cvtColor(..., cv2.COLOR_RGB2BGR) on one pixel and on an image
SwapRB(p) == <<p[3], p[2], p[1]>>

cvtColor(f) == [y \in DOMAIN f |-> [x \in DOMAIN f[y] |-> SwapRB(f[y][x])]]

\* pixels a search image file can hold, in the BGR order cv2.imread returns
ImgColors == {SwapRB(p) : p \in Colors}

Height(f) == Len(f)

Width(f) == Len(f[1])

\* all images of h rows and w columns over a set of pixels
Images(h, w, px) == [1..h -> [1..w -> px]]

RECURSIVE SumSeq(_)
SumSeq(s) == IF s = <<>> THEN 0 ELSE Head(s) + SumSeq(Tail(s))

\* ------------------------------------------------------------- VNCMatch.find
\* cv2.matchTemplate(screen, img, cv2.TM_SQDIFF) at top-left (x, y): the sum
\* over the pixels and channels of the search image of the squared difference
SqDiff(screen, img, x, y) ==
    LET h == Height(img)
        w == Width(img)
        term(k) == LET c == ((k - 1) % 3) + 1
                       j == (((k - 1) \div 3) % w) + 1
                       i == ((k - 1) \div (3 * w)) + 1
                       d == img[i][j][c] - screen[y + i][x + j][c]
                   IN  d * d
    IN  SumSeq([k \in 1..(h * w * 3) |-> term(k)])

\* a match result padded to the size of the screen, with a value above the
\* threshold where the search image does not fit
matchTemplatePadded(screen, img) ==
    [r \in 1..Height(screen) |->
        [c \in 1..Width(screen) |->
            IF /\ r <= Height(screen) - Height(img) + 1
               /\ c <= Width(screen) - Width(img) + 1
            THEN SqDiff(screen, img, c - 1, r - 1)
            ELSE Height(img) * Width(img)]]

\* the result of cv2.matchTemplate has one entry per position at which the
\* search image fits: (H - h + 1) rows of (W - w + 1) values
matchTemplate(screen, img) ==
    [r \in 1..(Height(screen) - Height(img) + 1) |->
        [c \in 1..(Width(screen) - Width(img) + 1) |->
            SqDiff(screen, img, c - 1, r - 1)]]

\* a threshold that accepts exact matches only
ThresholdExact(v, img) == v = 0

\* match_values <= 0.5 * img.shape[0] * img.shape[1]
Threshold(v, img) == 2 * v <= Height(img) * Width(img)

\* (match_values <= ...).astype(int)
Matches(screen, img) ==
    LET mv == matchTemplate(screen, img)
    IN  [r \in DOMAIN mv |->
            [c \in DOMAIN mv[r] |-> IF Threshold(mv[r][c], img) THEN 1 ELSE 0]]

\* numpy.where(matches) zipped to (x, y): the positions of the non-zero
\* entries in row-major order
Where(m) ==
    LET rows == Len(m)
        cols == IF rows = 0 THEN 0 ELSE Len(m[1])
        all  == [k \in 1..(rows * cols) |->
                    <<(k - 1) % cols, (k - 1) \div cols>>]
    IN  SelectSeq(all, LAMBDA p : m[p[2] + 1][p[1] + 1] # 0)

\* a box list that merges a raw hit into the raw hit to its left
CoordListMerged(m, img) ==
    LET lt == SelectSeq(Where(m),
                        LAMBDA p : ~ (p[1] > 0 /\ m[p[2] + 1][p[1]] # 0))
    IN  [k \in DOMAIN lt |->
            <<lt[k][1], lt[k][2],
              lt[k][1] + Width(img) - 1, lt[k][2] + Height(img) - 1>>]

\* (xl, yt, xl + img_w - 1, yt + img_h - 1) for every found position
CoordList(m, img) ==
    LET lt == Where(m)
    IN  [k \in DOMAIN lt |->
            <<lt[k][1], lt[k][2],
              lt[k][1] + Width(img) - 1, lt[k][2] + Height(img) - 1>>]

\* VNCMatch.find(img) on the captured RGB frame
find(capture, img) ==
    LET screen == cvtColor(capture)
    IN  IF img = None
        THEN [img |-> None, screen |-> screen, matches |-> None,
              coord_list |-> <<>>]
        ELSE LET m == Matches(screen, img)
             IN  [img |-> img, screen |-> screen, matches |-> m,
                  coord_list |-> CoordList(m, img)]

\* ------------------------------------------------- FindResult.output_imgs
\* A directory is a function from the names of its files to their contents.
\* The content of an image file is kept as its kind only, the content of
\* coord_list.json as the list that json.dump writes.
Png == <<"png">>

EmptyDir == [n \in {} |-> Png]

\* a _write_image that leaves an existing file alone if img is None
WriteImageKeep(dir, name, img) ==
    IF img = None
    THEN dir
    ELSE [n \in (DOMAIN dir) \cup {name} |-> IF n = name THEN Png ELSE dir[n]]

\* FindResult._write_image: write the file, or delete it if img is None
\* (os.unlink only if os.path.exists)
WriteImage(dir, name, img) ==
    IF img = None
    THEN [n \in (DOMAIN dir) \ {name} |-> dir[n]]
    ELSE [n \in (DOMAIN dir) \cup {name} |-> IF n = name THEN Png ELSE dir[n]]

\* open(coord_list.json, 'w'); json.dump(coord_list)
WriteJson(dir, name, value) ==
    [n \in (DOMAIN dir) \cup {name} |-> IF n = name THEN value ELSE dir[n]]

\* found: Optional = None unless img is not None and matches is not None;
\* the overlay itself is an image of the size of the screen
Found(fr) == IF fr.img # None /\ fr.matches # None THEN fr.screen ELSE None

\* FindResult.output_imgs(dirname) applied to the directory as it is
\* (EmptyDir if os.makedirs had to create it)
OutputImgs(dir, fr) ==
    LET d1 == WriteImage(dir, "img.png", fr.img)
        d2 == WriteImage(d1, "screen.png", fr.screen)
        d3 == WriteJson(d2, "coord_list.json", fr.coord_list)
    IN  WriteImage(d3, "found.png", Found(fr))

\* ''.join([c if c.isalnum() else '_' for c in msg]) for the two messages
Sanitize(msg) ==
    CASE msg = "image found multiple times" -> "image_found_multiple_times"
      [] msg = "image not found" -> "image_not_found"

\* os.path.join('vncmatch_fails', sanitized + '_' + timestamp)
DirName(msg, stamp) == <<"vncmatch_fails", Sanitize(msg), stamp>>

\* a centre rounded up instead of down
CentroidCeil(box) ==
    <<(box[1] + box[3] + 1) \div 2, (box[2] + box[4] + 1) \div 2>>

\* ((xl + xr) // 2, (yt + yb) // 2)
Centroid(box) == <<(box[1] + box[3]) \div 2, (box[2] + box[4]) \div 2>>

\* ------------------------------------------------------------------ inputs
\* screens of the search specification and the search images that fit them
Heights == 1..2

Screens == UNION {Images(h, w, Colors) : h \in Heights, w \in 1..MaxW}

SearchImgs ==
    UNION {Images(h, w, ImgColors) : h \in Heights, w \in 1..MaxImgW}

Fits(img, f) == Height(img) <= Height(f) /\ Width(img) <= Width(f)

\* screens the VNC server shows during expect_single_img, and the contents
\* of the search image file
Dark == <<0, 0, 0>>

Lit == <<0, 0, 1>>

PollScreens ==
    {<<<<Dark, Dark, Dark>>>>, <<<<Lit, Dark, Dark>>>>,
     <<<<Dark, Dark, Lit>>>>, <<<<Dark, Lit, Dark>>>>}

\* a file holding two lit pixels side by side, and a file cv2.imread cannot
\* decode (it returns None)
PollImgs == {<<<<SwapRB(Lit), SwapRB(Lit)>>>>, None}

\* find on every screen and search image of the polling specification
PollFind == [f \in PollScreens, img \in PollImgs |-> find(f, img)]

\* the seconds time.strftime('%Y%m%d-%H%M%S') shows while the tests run
Stamps == {"20221101-120000", "20221101-120001"}

\* timeouts of expect_single_img in ticks: the default 0, and 10 ticks
Timeouts == {0, 10}

\* time.sleep(0.1 * timeout): a tenth of the timeout
SleepDiv == 10

\* the frame source is unconstrained
Free == 0 - 1

\* ------------------------------------------------------------------- state
VARIABLES
    pc,        \* position of the current call
    vnc,       \* the frame vnc.capture() returns (RGB)
    imgfile,   \* content of the search image file / img argument of find
    timeout,   \* timeout argument, in ticks
    now,       \* time.time(), relative to the start of the call
    endT,      \* end = time.time() + timeout
    fi_res,    \* the FindResult of the last find
    result,    \* the value returned by expect_single_img
    failure,   \* the assertion raised: message and directory
    fs,        \* the directories under vncmatch_fails
    ncap,      \* captures taken by the current call
    nsleep,    \* time.sleep calls of the current call
    stall,     \* find_img calls of the current call that took no clock time
    dur,       \* the duration of the last find_img
    multi,     \* an attempt before the last one found more than one box
    removed,   \* files deleted by the last report
    trans      \* the instant at which the screen changes from 0 to 1 box

vars == <<pc, vnc, imgfile, timeout, now, endT, fi_res, result, failure, fs,
          ncap, nsleep, stall, dur, multi, removed, trans>>

Terminal == {"returned", "failed", "missing"}

NoFailure == [msg |-> "", dirname |-> <<>>]

\* the state of a process that has not called expect_single_img yet
Init ==
    /\ pc = "idle"
    /\ vnc \in PollScreens
    /\ imgfile \in PollImgs
    /\ timeout = 0
    /\ now = 0
    /\ endT = 0
    /\ fi_res = None
    /\ result = None
    /\ failure = NoFailure
    /\ fs = [d \in {} |-> EmptyDir]
    /\ ncap = 0
    /\ nsleep = 0
    /\ stall = 0
    /\ dur = 0
    /\ multi = FALSE
    /\ removed = {}
    /\ trans = Free

\* ------------------------------------------------- VNCMatch.expect_single_img
\* a test calls expect_single_img(imgname, timeout): end = time.time() + timeout
Call(img, t, tr) ==
    /\ pc \in Terminal \cup {"idle"}
    /\ pc' = "find"
    /\ imgfile' = img
    /\ timeout' = t
    /\ now' = 0
    /\ endT' = 0 + t
    /\ fi_res' = None
    /\ result' = None
    /\ failure' = NoFailure
    /\ ncap' = 0
    /\ nsleep' = 0
    /\ stall' = 0
    /\ dur' = 0
    /\ multi' = FALSE
    /\ removed' = {}
    /\ trans' = tr
    /\ UNCHANGED <<vnc, fs>>

\* a find_img that notices the missing file only after the capture
FindImgMissingAfterCapture ==
    /\ pc = "find"
    /\ pc' = "missing"
    /\ failure' = [msg |-> "image file is missing", dirname |-> <<>>]
    /\ vnc' \in PollScreens
    /\ ncap' = ncap + 1
    /\ UNCHANGED <<imgfile, timeout, now, endT, fi_res, result, fs, nsleep,
                   stall, dur, multi, removed, trans>>

\* find_img: the assertion os.path.isfile(imgname) fails
FindImgMissing ==
    /\ pc = "find"
    /\ pc' = "missing"
    /\ failure' = [msg |-> "image file is missing", dirname |-> <<>>]
    /\ UNCHANGED <<vnc, imgfile, timeout, now, endT, fi_res, result, fs, ncap,
                   nsleep, stall, dur, multi, removed, trans>>

\* the frames the source can deliver at time t
SourceFrames(tr, t, img) ==
    IF tr = Free THEN PollScreens
    ELSE {f \in PollScreens :
            Len(PollFind[f, img].coord_list) = IF t <= tr THEN 0 ELSE 1}

\* one pass of the loop up to the test of the box count: find_img reads the
\* file, find captures frame f and searches, which takes d ticks; exactly
\* one box returns its centre
FindImg(f, d) ==
    /\ pc = "find"
    /\ d = 0 => stall < MaxStall
    /\ LET fr == PollFind[f, imgfile]
       IN  /\ f \in SourceFrames(trans, now, imgfile)
           /\ vnc' = f
           /\ fi_res' = fr
           /\ IF Len(fr.coord_list) = 1
              THEN /\ pc' = "returned"
                   /\ result' = Centroid(fr.coord_list[1])
              ELSE /\ pc' = "check"
                   /\ result' = result
    /\ multi' = (multi \/ (fi_res # None /\ Len(fi_res.coord_list) > 1))
    /\ ncap' = ncap + 1
    /\ dur' = d
    /\ now' = now + d
    /\ stall' = IF d = 0 THEN stall + 1 ELSE stall
    /\ UNCHANGED <<imgfile, timeout, endT, failure, fs, nsleep, removed, trans>>

\* a deadline test that already leaves the loop at the deadline
ExpiredAtDeadline(t, e) == t >= e

\* if time.time() > end: break
Expired(t, e) == t > e

CheckTimeout ==
    /\ pc = "check"
    /\ pc' = IF Expired(now, endT) THEN "report" ELSE "sleep"
    /\ UNCHANGED <<vnc, imgfile, timeout, now, endT, fi_res, result, failure,
                   fs, ncap, nsleep, stall, dur, multi, removed, trans>>

\* a sleep of the whole timeout
SleepWhole(t) == t

\* time.sleep(0.1 * timeout)
SleepTime(t) == t \div SleepDiv

Sleep ==
    /\ pc = "sleep"
    /\ pc' = "find"
    /\ now' = now + SleepTime(timeout)
    /\ nsleep' = nsleep + 1
    /\ UNCHANGED <<vnc, imgfile, timeout, endT, fi_res, result, failure, fs,
                   ncap, stall, dur, multi, removed, trans>>

\* a message that remembers an earlier attempt with more than one box
MessageAnyAttempt(fr) ==
    IF multi \/ Len(fr.coord_list) > 1 THEN "image found multiple times"
    ELSE "image not found"

\* 'image found multiple times' if len(coord_list) > 1 else 'image not found'
Message(fr) ==
    IF Len(fr.coord_list) > 1 THEN "image found multiple times"
    ELSE "image not found"

\* VNCMatch._output_and_fail(msg, fi_res) with time.strftime showing second
\* stamp: write the report, then assert False
OutputAndFail(stamp) ==
    /\ pc = "report"
    /\ LET msg == Message(fi_res)
           dn  == DirName(msg, stamp)
           old == IF dn \in DOMAIN fs THEN fs[dn] ELSE EmptyDir
           new == OutputImgs(old, fi_res)
       IN  /\ fs' = [d \in (DOMAIN fs) \cup {dn} |->
                        IF d = dn THEN new ELSE fs[d]]
           /\ removed' = (DOMAIN old) \ (DOMAIN new)
           /\ failure' = [msg |-> msg, dirname |-> dn]
    /\ pc' = "failed"
    /\ UNCHANGED <<vnc, imgfile, timeout, now, endT, fi_res, result, ncap,
                   nsleep, stall, dur, multi, trans>>

\* the steps of a call in progress
Attempt == \E f \in PollScreens, d \in 0..MaxFindDur : FindImg(f, d)

Report == \E stamp \in Stamps : OutputAndFail(stamp)

\* tests call expect_single_img again and again, with any screen contents
CallAny == \E img \in PollImgs, t \in Timeouts : Call(img, t, Free)

Next ==
    \/ CallAny
    \/ FindImgMissing
    \/ Attempt
    \/ CheckTimeout
    \/ Sleep
    \/ Report

Spec == Init /\ [][Next]_vars

\* The interpreter runs a call to its end: no step of a call in progress is
\* postponed for ever.  (Whether a test makes another call is left open.)
LiveSpec ==
    /\ Spec
    /\ WF_vars(FindImgMissing \/ Attempt)
    /\ WF_vars(CheckTimeout)
    /\ WF_vars(Sleep)
    /\ WF_vars(Report)

\* A frame source that shows no box up to the instant tr, strictly inside
\* the timeout, and exactly one box afterwards.
CallStep ==
    \E img \in PollImgs \ {None}, t \in Timeouts \ {0} :
        \E tr \in 1..(t - 1) : Call(img, t, tr)

StepNext ==
    \/ CallStep
    \/ FindImgMissing
    \/ Attempt
    \/ CheckTimeout
    \/ Sleep
    \/ Report

StepSpec == Init /\ [][StepNext]_vars

\* ------------------------------------------------ specification of find
\* A test holds a search image that fits the screen of the VNC server (or no
\* image) and calls VNCMatch.find(img) once.
FindInit ==
    /\ pc = "idle"
    /\ vnc \in Screens
    /\ imgfile \in {i \in SearchImgs : Fits(i, vnc)} \cup {None}
    /\ timeout = 0
    /\ now = 0
    /\ endT = 0
    /\ fi_res = None
    /\ result = None
    /\ failure = NoFailure
    /\ fs = [d \in {} |-> EmptyDir]
    /\ ncap = 0
    /\ nsleep = 0
    /\ stall = 0
    /\ dur = 0
    /\ multi = FALSE
    /\ removed = {}
    /\ trans = Free

FindCall ==
    /\ pc = "idle"
    /\ pc' = "found"
    /\ fi_res' = find(vnc, imgfile)
    /\ ncap' = ncap + 1
    /\ UNCHANGED <<vnc, imgfile, timeout, now, endT, result, failure, fs,
                   nsleep, stall, dur, multi, removed, trans>>

FindNext == FindCall

FindSpec == FindInit /\ [][FindNext]_vars

\* ------------------------------------------------------- claims about find
\* the search has run with a search image
Searched == pc = "found" /\ fi_res.img # None

Abs(n) == IF n < 0 THEN 0 - n ELSE n

\* positions (x, y) of the entries of the match mask that are 1 (raw hits)
RawHits(fr) ==
    {p \in (0..(Width(fr.screen) - 1)) \X (0..(Height(fr.screen) - 1)) :
        /\ p[2] + 1 \in DOMAIN fr.matches
        /\ p[1] + 1 \in DOMAIN fr.matches[p[2] + 1]
        /\ fr.matches[p[2] + 1][p[1] + 1] = 1}

\* top-left corners of the boxes of the result
BoxCorners(fr) == {<<fr.coord_list[k][1], fr.coord_list[k][2]>> :
                      k \in DOMAIN fr.coord_list}

\* two raw hits one pixel apart whose search-image-sized rectangles overlap
Adjacent(p, q, img) ==
    /\ Abs(p[1] - q[1]) + Abs(p[2] - q[2]) = 1
    /\ Abs(p[1] - q[1]) < Width(img)
    /\ Abs(p[2] - q[2]) < Height(img)

\* two raw hits farther apart than the search image is wide or high
Apart(p, q, img) ==
    \/ Abs(p[1] - q[1]) > Width(img)
    \/ Abs(p[2] - q[2]) > Height(img)

\* C2 as claimed: find merges raw hits: two raw hits at Manhattan distance 1
\* within a search-image-sized footprint are covered by a single box (no two
\* boxes of the result stem from such a pair), and raw hits farther apart
\* than one dimension of the search image stay distinct boxes.
C2_Claimed ==
    Searched =>
        /\ \A p, q \in RawHits(fi_res) :
              Adjacent(p, q, fi_res.img) =>
                 ~ ({p, q} \subseteq BoxCorners(fi_res))
        /\ \A p, q \in RawHits(fi_res) :
              Apart(p, q, fi_res.img) => {p, q} \subseteq BoxCorners(fi_res)

\* C2 as amended: find does not merge raw hits.  The result holds exactly one
\* box per raw hit, anchored at that hit: two raw hits at Manhattan distance
\* 1 give two boxes, and so do raw hits farther apart.
C2_OneBoxPerRawHit ==
    Searched =>
        /\ BoxCorners(fi_res) = RawHits(fi_res)
        /\ Len(fi_res.coord_list) = Cardinality(RawHits(fi_res))

\* C2 witness: a search with two adjacent raw hits, each reported as a box
C2_Witness ==
    /\ Searched
    /\ \E p, q \in RawHits(fi_res) :
          Adjacent(p, q, fi_res.img) /\ {p, q} \subseteq BoxCorners(fi_res)

\* every box has the size of the search image and sits on a raw hit
BoxesWellFormed(fr) ==
    \A k \in DOMAIN fr.coord_list :
        LET b == fr.coord_list[k]
        IN  /\ b[3] - b[1] + 1 = Width(fr.img)
            /\ b[4] - b[2] + 1 = Height(fr.img)
            /\ <<b[1], b[2]>> \in RawHits(fr)

\* C9 as claimed: the match mask of the result has the dimensions of the
\* screen, and every box comes from a mask entry 1 and has the size of the
\* search image.
C9_Claimed ==
    Searched =>
        /\ Height(fi_res.matches) = Height(fi_res.screen)
        /\ Width(fi_res.matches) = Width(fi_res.screen)
        /\ BoxesWellFormed(fi_res)

\* C9 as amended: the match mask has one entry per position at which the
\* search image fits, (H - h + 1) x (W - w + 1), which is smaller than the
\* screen unless the search image is a single pixel; every box comes from a
\* mask entry 1 and has the size of the search image.
C9_MaskDims ==
    Searched =>
        /\ Height(fi_res.matches) =
              Height(fi_res.screen) - Height(fi_res.img) + 1
        /\ \A r \in DOMAIN fi_res.matches :
              Len(fi_res.matches[r]) =
                 Width(fi_res.screen) - Width(fi_res.img) + 1
        /\ BoxesWellFormed(fi_res)

\* C9 witness: a search image of more than one pixel, found at least once
C9_Witness ==
    /\ Searched
    /\ Height(fi_res.img) > 1
    /\ Width(fi_res.img) > 1
    /\ Len(fi_res.coord_list) > 0

\* positions at which the search image fits the screen
Alignments(fr) ==
    (0..(Width(fr.screen) - Width(fr.img))) \X
    (0..(Height(fr.screen) - Height(fr.img)))

\* positions at which the search image appears with zero pixel difference
ExactAt(fr) ==
    {p \in Alignments(fr) : SqDiff(fr.screen, fr.img, p[1], p[2]) = 0}

\* positions with a non-zero squared difference of at most 0.5 x h x w
NearAt(fr) ==
    {p \in Alignments(fr) :
        LET v == SqDiff(fr.screen, fr.img, p[1], p[2])
        IN  v > 0 /\ 2 * v <= Height(fr.img) * Width(fr.img)}

BoxAt(p, img) ==
    <<p[1], p[2], p[1] + Width(img) - 1, p[2] + Height(img) - 1>>

\* C10 as claimed: if the search image appears at exactly one position with
\* zero pixel difference, find returns exactly one box, at that position and
\* of the size of the search image, whatever the other alignments score.
C10_Claimed ==
    (Searched /\ Cardinality(ExactAt(fi_res)) = 1) =>
        \E p \in ExactAt(fi_res) :
            fi_res.coord_list = <<BoxAt(p, fi_res.img)>>

\* C10 as amended: if the search image appears at exactly one position with
\* zero pixel difference, the result holds the box of that position (of the
\* size of the search image) and, besides it, one box for every other
\* alignment whose squared difference is at most 0.5 x h x w; it is
\* exactly one box iff there is no such alignment.
C10_ExactPlusNear ==
    (Searched /\ Cardinality(ExactAt(fi_res)) = 1) =>
        /\ \E p \in ExactAt(fi_res) :
              \E k \in DOMAIN fi_res.coord_list :
                  fi_res.coord_list[k] = BoxAt(p, fi_res.img)
        /\ Len(fi_res.coord_list) = 1 + Cardinality(NearAt(fi_res))

\* C10 witness: one exact position and another alignment within the
\* threshold, reported as two boxes
C10_Witness ==
    /\ Searched
    /\ Cardinality(ExactAt(fi_res)) = 1
    /\ Cardinality(NearAt(fi_res)) = 1
    /\ Len(fi_res.coord_list) = 2

\* ------------------------------------------ claims about expect_single_img
Reported == pc = "failed"

\* the box list of the search of the last captured frame
LastBoxes == PollFind[vnc, imgfile].coord_list

\* C1: expect_single_img returns a value only from an attempt whose result
\* holds exactly one box, and the value is the floor-division centroid
\* ((left + right) // 2, (top + bottom) // 2) of that box, computed from the
\* capture of that attempt; while the last attempt has 0 or more than one
\* box nothing is returned.
C1_ReturnsCentroidOfSingleBox ==
    /\ pc = "returned" =>
          /\ fi_res.coord_list = LastBoxes
          /\ Len(LastBoxes) = 1
          /\ result[1] * 2 <= LastBoxes[1][1] + LastBoxes[1][3]
          /\ LastBoxes[1][1] + LastBoxes[1][3] < result[1] * 2 + 2
          /\ result[2] * 2 <= LastBoxes[1][2] + LastBoxes[1][4]
          /\ LastBoxes[1][2] + LastBoxes[1][4] < result[2] * 2 + 2
    /\ result # None => pc = "returned"

\* C1 witness: a value returned from a later attempt, for a box whose left
\* and right sum to an odd number
C1_Witness ==
    /\ pc = "returned"
    /\ ncap > 1
    /\ (fi_res.coord_list[1][1] + fi_res.coord_list[1][3]) % 2 = 1
    /\ result = <<1, 0>>

\* C3 as claimed: with timeout 0 the call makes one attempt only: at most one
\* capture, no sleep, and the deadline test never continues the loop.
C3_Claimed ==
    timeout = 0 => (ncap <= 1 /\ nsleep = 0 /\ pc # "sleep")

\* C4: a call that never sees exactly one box ends by signalling the
\* failure and returns nothing; the failure is signalled only once the clock
\* has passed the deadline, and no later than one sleep of 0.1 x timeout
\* plus (the duration of) one find attempt after the deadline.
C4_FailsOnlyAfterDeadline ==
    /\ [](pc \in {"report", "failed"} =>
            /\ now > endT
            /\ now <= endT + (timeout \div SleepDiv) + dur
            /\ result = None
            /\ Len(fi_res.coord_list) # 1)
    /\ [](pc = "find" => <>(pc \in Terminal))

\* C4 witness: a failure signalled after a timeout of several attempts
C4_Witness ==
    /\ Reported
    /\ timeout > 0
    /\ ncap > 2
    /\ now = endT + (timeout \div SleepDiv) + dur

C6_MessageFromLastAttempt ==
    Reported =>
        /\ failure.msg = "image found multiple times" <=> Len(LastBoxes) > 1
        /\ failure.msg = "image not found" <=> Len(LastBoxes) = 0
        /\ fs[failure.dirname]["coord_list.json"] = LastBoxes

\* C6 witness: 'image not found' although an earlier attempt found the
\* image more than once
C6_Witness ==
    /\ Reported
    /\ multi
    /\ failure.msg = "image not found"

\* C7: a missing search image file fails the call at once, at whichever
\* pass of the loop it is noticed: nothing is captured or searched, nothing
\* sleeps, no report is written, and the call is not continued.
C7_MissingFileIsImmediate ==
    /\ [][(pc' = "missing" /\ pc # "missing") =>
            /\ pc = "find"
            /\ UNCHANGED <<vnc, fi_res, fs, ncap, nsleep, now, removed>>
            /\ failure'.dirname = None]_vars
    /\ [][pc = "missing" =>
            (pc' = "missing" \/ (pc' = "find" /\ ncap' = 0 /\ now' = 0))]_vars

\* C7 witness: the file is noticed missing after earlier attempts of the call
C7_Witness ==
    /\ pc = "missing"
    /\ ncap > 1
    /\ nsleep = ncap
    /\ failure.dirname = None

\* C8: when the failure is signalled the report has been written: its
\* directory holds screen.png and coord_list.json (the boxes of the final
\* attempt), img.png iff the result has a search image and found.png iff it
\* has a search image and a match mask, also when the directory held an
\* earlier report; and nothing is signalled before the report is written.
C8_ReportWrittenBeforeFailure ==
    /\ Reported =>
          /\ failure.dirname \in DOMAIN fs
          /\ LET d == fs[failure.dirname]
             IN  /\ {"screen.png", "coord_list.json"} \subseteq DOMAIN d
                 /\ d["coord_list.json"] = fi_res.coord_list
                 /\ "img.png" \in DOMAIN d <=> fi_res.img # None
                 /\ "found.png" \in DOMAIN d <=>
                       (fi_res.img # None /\ fi_res.matches # None)
    /\ pc = "report" => failure = NoFailure

\* C8 witness: a report without search image written into a directory that
\* held img.png and found.png of an earlier report
C8_Witness ==
    /\ Reported
    /\ fi_res.img = None
    /\ removed = {"img.png", "found.png"}

====
